---- MODULE Spec2Model ----
(***************************************************************************)
(* Model of the well-domain ingestion scripts (src/ingestion).             *)
(*                                                                         *)
(* Text is a sequence of one-character strings.  A parsed decimal is the   *)
(* exact rational [n, d] (d a power of ten) that Python's float() rounds;  *)
(* the comparisons the code makes (factor != 1.0) are made on the          *)
(* rational.  NONE stands for Python's None.                               *)
(***************************************************************************)
EXTENDS Integers, Sequences, FiniteSets, TLC

VARIABLES
    unitText,       \* parse_unit: the argument `unit`
    unitResult,     \* parse_unit: PENDING before the call, then the return value
    distArgs,       \* parse_distance: the arguments [value, unit]
    distResult,     \* parse_distance: PENDING, then the return value
    names,          \* clean_name: the argument, then the result of each call on the last
    column,         \* measured_depth: the column [externalId, unit]
    depthResult,    \* measured_depth: PENDING, then the return value
    colArgs,        \* measurement_columns: [columns, response, selector]
    colResult,      \* measurement_columns: PENDING, then [output], the list returned
    chunkArgs,      \* chunks: the arguments [lst, n]
    chunkResult,    \* chunks: PENDING, then [groups], the groups yielded in order
    trajArgs,       \* create_trajectory_ingestion: [columns, factor, cells, data]
    trajResult,     \* create_trajectory_ingestion: PENDING, then the outcome
    program,        \* the run: "osdu", "edm" (a well mapper) or "trajectories" (main)
    wellAssets,     \* the run: well_assets
    wellboreAssets, \* the run: wellbore_assets
    sequences,      \* the run: the trajectory sequences with their data
    pc,             \* the run: "map", "wells", "wellbores", "trajectories", "done", "aborted"
    mapped,         \* the run: PENDING, then the records the mapper built or its exception
    groupNo,        \* the run: the number of the group the chunk loop is at
    calls,          \* the run: the ingest calls made, in order
    topsArgs,       \* create_well_tops: [sequence, records, wellbore]
    topsResult      \* create_well_tops: PENDING, then the return value

unitVars == <<unitText, unitResult>>

distVars == <<distArgs, distResult>>

nameVars == <<names>>

depthVars == <<column, depthResult>>

colVars == <<colArgs, colResult>>

chunkVars == <<chunkArgs, chunkResult>>

trajVars == <<trajArgs, trajResult>>

runVars == <<program, wellAssets, wellboreAssets, sequences, pc, mapped, groupNo, calls>>

topsVars == <<topsArgs, topsResult>>

vars == <<unitVars, distVars, nameVars, depthVars, colVars, chunkVars, trajVars, runVars,
          topsVars>>

\* Python's None, and the value of a result not yet computed
NONE == [none |-> TRUE]

PENDING == [pending |-> TRUE]

\* None where a text is expected: told from every text, whose elements are characters
NOTEXT == <<"None">>

----------------------------------------------------------------------------
(* Bounds of the model *)

\* longest text over UnitAlphabet handed to parse_unit
MaxUnitLen == 4

\* longest value and unit text over their alphabets handed to parse_distance
MaxDistLen == 3

\* most pieces a name handed to clean_name is put together from
MaxPieces == 3

\* longest unit text over DepthUnitAlphabet in a column's metadata
MaxDepthUnitLen == 2

----------------------------------------------------------------------------
(* Characters and text helpers *)

Digits == {"0", "1", "2", "3", "4", "5", "6", "7", "8", "9"}

Spaces == {" ", "\t", "\n", "\r"}

Lowers == {"a", "b", "c", "d", "e", "f", "g", "h", "i", "j", "k", "l", "m",
           "n", "o", "p", "q", "r", "s", "t", "u", "v", "w", "x", "y", "z"}

Uppers == {"A", "B", "C", "D", "E", "F", "G", "H", "I", "J", "K", "L", "M",
           "N", "O", "P", "Q", "R", "S", "T", "U", "V", "W", "X", "Y", "Z"}

\* the regex class \w
WordChars == Digits \cup Lowers \cup Uppers \cup {"_"}

DigitValue(c) ==
    CASE c = "0" -> 0 [] c = "1" -> 1 [] c = "2" -> 2 [] c = "3" -> 3
      [] c = "4" -> 4 [] c = "5" -> 5 [] c = "6" -> 6 [] c = "7" -> 7
      [] c = "8" -> 8 [] c = "9" -> 9

AllIn(s, S) == \A i \in 1..Len(s) : s[i] \in S

Pow10(k) == IF k = 0 THEN 1
            ELSE IF k = 1 THEN 10
            ELSE IF k = 2 THEN 100
            ELSE IF k = 3 THEN 1000
            ELSE IF k = 4 THEN 10000
            ELSE IF k = 5 THEN 100000
            ELSE 1000000

RECURSIVE DigitsValue(_)
DigitsValue(s) ==
    IF s = <<>> THEN 0
    ELSE 10 * DigitsValue(SubSeq(s, 1, Len(s) - 1)) + DigitValue(s[Len(s)])

\* All texts over alphabet A of length at most n
RECURSIVE TextsUpTo(_, _)
TextsUpTo(A, n) ==
    IF n = 0 THEN {<<>>}
    ELSE LET shorter == TextsUpTo(A, n - 1)
         IN  shorter \cup {Append(s, c) : s \in shorter, c \in A}

----------------------------------------------------------------------------
(* utils/measurements.py: parse_unit *)

\* _unit_map: alias word -> canonical unit
UnitMap(word) ==
    CASE word \in {<<"m">>, <<"m","e","t","e","r">>, <<"m","e","t","e","r","s">>}
            -> "meter"
      [] word \in {<<"i","n">>, <<"i","n","c","h">>, <<"i","n","c","h","e","s">>}
            -> "inch"
      [] word \in {<<"f","e","e","t">>, <<"f","o","o","t">>, <<"f","t">>}
            -> "foot"
      [] OTHER -> "unknown"

\* the body of the factor group: [+-]?([0-9]*[.])?[0-9]+ matches all of s
IsDecimal(s) ==
    LET body == IF s # <<>> /\ s[1] \in {"+", "-"} THEN Tail(s) ELSE s
        dots == {i \in 1..Len(body) : body[i] = "."}
    IN  /\ body # <<>>
        /\ body[Len(body)] \in Digits
        /\ Cardinality(dots) <= 1
        /\ \A i \in 1..Len(body) : body[i] \in Digits \cup {"."}

\* float(factor_match): the exact value of a text that IsDecimal accepts
DecimalValue(s) ==
    LET neg    == s[1] = "-"
        body   == IF s[1] \in {"+", "-"} THEN Tail(s) ELSE s
        dots   == {i \in 1..Len(body) : body[i] = "."}
        dot    == IF dots = {} THEN Len(body) + 1 ELSE CHOOSE i \in dots : TRUE
        whole  == SubSeq(body, 1, dot - 1)
        frac   == SubSeq(body, dot + 1, Len(body))
        mag    == DigitsValue(whole) * Pow10(Len(frac)) + DigitsValue(frac)
    IN  [n |-> IF neg THEN 0 - mag ELSE mag, d |-> Pow10(Len(frac))]

One == [n |-> 1, d |-> 1]

Milli == [n |-> 1, d |-> 1000]

SameNumber(a, b) == a.n * b.d = b.n * a.d

\* \s*(?P<unit>\w+) against the rest of the text after the factor group:
\* the unit group, or <<>> when the rest does not match
UnitGroup(rest) ==
    LET blanks == {k \in 0..Len(rest) : \A i \in 1..k : rest[i] \in Spaces}
        k      == CHOOSE m \in blanks : \A o \in blanks : o <= m
        word   == SubSeq(rest, k + 1, Len(rest))
    IN  IF AllIn(word, WordChars) THEN word ELSE <<>>

(* _unit_regex.fullmatch(unit): the groups of the match the regex engine    *)
(* finds first (an absent factor group is <<>>), or NONE.  The engine tries *)
(* the optional factor group greedily: the longest prefix that is a decimal *)
(* and leaves a matching rest wins, the match without a factor group comes  *)
(* last.                                                                    *)
FactorEnds(text) ==
    {i \in 1..Len(text) :
        /\ IsDecimal(SubSeq(text, 1, i))
        /\ UnitGroup(SubSeq(text, i + 1, Len(text))) # <<>>}

\* a lazy factor group: the shortest prefix wins
PickShortestFactorEnd(ends) == CHOOSE i \in ends : \A j \in ends : i <= j

PickFactorEnd(ends) == CHOOSE i \in ends : \A j \in ends : j <= i

UnitRegexFullmatch(text) ==
    LET ends == FactorEnds(text)
    IN  IF ends # {}
        THEN LET i == PickFactorEnd(ends)
             IN  [factor |-> SubSeq(text, 1, i),
                  unit   |-> UnitGroup(SubSeq(text, i + 1, Len(text)))]
        ELSE IF UnitGroup(text) # <<>>
        THEN [factor |-> <<>>, unit |-> UnitGroup(text)]
        ELSE NONE

DefaultFactor == One

ParseUnit(text) ==
    IF text = <<"m", "m">> THEN [unit |-> "meter", factor |-> Milli]
    ELSE IF text = <<"m", " ", "r", "k", "b">> THEN [unit |-> "meter", factor |-> One]
    ELSE LET match == UnitRegexFullmatch(text)
         IN  IF match = NONE THEN NONE
             ELSE LET factor == IF match.factor # <<>>
                                THEN DecimalValue(match.factor)
                                ELSE DefaultFactor
                      u      == UnitMap(match.unit)
                  IN  IF u # "unknown" THEN [unit |-> u, factor |-> factor] ELSE NONE

----------------------------------------------------------------------------
(* Inputs of parse_unit *)

UnitAlphabet == {"-", ".", "0", "1", " ", "m", "f", "t", "M"}

UnitLiterals ==
    { <<"m", " ", "r", "k", "b">>,
      <<"0", ".", "1", " ", "i", "n">>,
      <<"f", "e", "e", "t">>,
      <<"b", "a", "n", "a", "n", "a">>,
      <<"+", "1", ".", "5", " ", " ", "f", "o", "o", "t">>,
      <<"2", "3", ".", "3", "4", " ", "f", "t">>,
      <<"m", "e", "t", "e", "r", "s">>,
      <<"i", "n", "c", "h", "e", "s">>,
      <<"F", "e", "e", "t">>,
      <<"m", " ", "r", "k", "b", " ">>,
      <<"1", " ", "m", " ", "r", "k", "b">>,
      <<"1", ".", " ", "m">>,
      <<"1", ".", "2", ".", "3", "m">>,
      <<"1", "\t", "\n", "i", "n", "c", "h">> }

UnitTexts == TextsUpTo(UnitAlphabet, MaxUnitLen) \cup UnitLiterals

----------------------------------------------------------------------------
(* Components no call is made on in a specification *)

\* A component no call is made on in a specification
IdleUnit == unitText = <<>> /\ unitResult = PENDING

IdleDist == distArgs = NONE /\ distResult = PENDING

IdleName == names = <<>>

IdleDepth == column = NONE /\ depthResult = PENDING

IdleCol == colArgs = NONE /\ colResult = PENDING

IdleChunk == chunkArgs = NONE /\ chunkResult = PENDING

IdleTraj == trajArgs = NONE /\ trajResult = PENDING

IdleTops == topsArgs = NONE /\ topsResult = PENDING

IdleRun ==
    /\ program = "none"
    /\ wellAssets = <<>>
    /\ wellboreAssets = <<>>
    /\ sequences = <<>>
    /\ pc = "done"
    /\ mapped = PENDING
    /\ groupNo = 1
    /\ calls = <<>>

\* Every component but g is idle
OthersIdle(g) ==
    /\ IF g = "unit" THEN TRUE ELSE IdleUnit
    /\ IF g = "dist" THEN TRUE ELSE IdleDist
    /\ IF g = "name" THEN TRUE ELSE IdleName
    /\ IF g = "depth" THEN TRUE ELSE IdleDepth
    /\ IF g = "col" THEN TRUE ELSE IdleCol
    /\ IF g = "chunk" THEN TRUE ELSE IdleChunk
    /\ IF g = "traj" THEN TRUE ELSE IdleTraj
    /\ IF g = "run" THEN TRUE ELSE IdleRun
    /\ IF g = "tops" THEN TRUE ELSE IdleTops

\* Every component but g keeps its state
OthersUnchanged(g) ==
    /\ IF g = "unit" THEN TRUE ELSE UNCHANGED unitVars
    /\ IF g = "dist" THEN TRUE ELSE UNCHANGED distVars
    /\ IF g = "name" THEN TRUE ELSE UNCHANGED nameVars
    /\ IF g = "depth" THEN TRUE ELSE UNCHANGED depthVars
    /\ IF g = "col" THEN TRUE ELSE UNCHANGED colVars
    /\ IF g = "chunk" THEN TRUE ELSE UNCHANGED chunkVars
    /\ IF g = "traj" THEN TRUE ELSE UNCHANGED trajVars
    /\ IF g = "run" THEN TRUE ELSE UNCHANGED runVars
    /\ IF g = "tops" THEN TRUE ELSE UNCHANGED topsVars

(* Specification of parse_unit: one call on any text *)

InitUnit ==
    /\ unitText \in UnitTexts
    /\ unitResult = PENDING
    /\ OthersIdle("unit")

CallParseUnit ==
    /\ unitResult = PENDING
    /\ unitResult' = ParseUnit(unitText)
    /\ UNCHANGED unitText
    /\ OthersUnchanged("unit")

NextUnit == CallParseUnit

SpecUnit == InitUnit /\ [][NextUnit]_vars

\* The alias table as the specification lists it
C1Aliases ==
    { <<<<"m">>, "meter">>, <<<<"m","e","t","e","r">>, "meter">>,
      <<<<"m","e","t","e","r","s">>, "meter">>,
      <<<<"i","n">>, "inch">>, <<<<"i","n","c","h">>, "inch">>,
      <<<<"i","n","c","h","e","s">>, "inch">>,
      <<<<"f","e","e","t">>, "foot">>, <<<<"f","o","o","t">>, "foot">>,
      <<<<"f","t">>, "foot">> }

(* The readings of a text as decimal, whitespace, alias word: the decimal   *)
(* and the whitespace may each be empty.                                    *)
C1Readings(text) ==
    { [unit   |-> a[2],
       factor |-> IF i = 0 THEN One ELSE DecimalValue(SubSeq(text, 1, i))] :
        <<i, j, a>> \in
            { <<i, j, a>> \in (0..Len(text)) \X (0..Len(text)) \X C1Aliases :
                /\ i <= j
                /\ i = 0 \/ IsDecimal(SubSeq(text, 1, i))
                /\ AllIn(SubSeq(text, i + 1, j), Spaces)
                /\ SubSeq(text, j + 1, Len(text)) = a[1] } }

(* C1: parse_unit returns {meter, 0.001} for "mm", {meter, 1.0} for         *)
(* "m rkb", otherwise the canonical unit of the alias with the decimal as   *)
(* factor (1.0 without a numeric prefix) when the whole text is an optional *)
(* signed decimal, whitespace (possibly none) and an alias word, and None   *)
(* in every other case; it never raises.                                    *)
C1_ParseUnitContract ==
    unitResult # PENDING =>
        IF unitText = <<"m", "m">>
        THEN unitResult = [unit |-> "meter", factor |-> [n |-> 1, d |-> 1000]]
        ELSE IF unitText = <<"m", " ", "r", "k", "b">>
        THEN unitResult = [unit |-> "meter", factor |-> [n |-> 1, d |-> 1]]
        ELSE IF C1Readings(unitText) = {}
        THEN unitResult = NONE
        ELSE unitResult \in C1Readings(unitText)
             /\ Cardinality(C1Readings(unitText)) = 1

\* C1 witness: a text with a numeric prefix, whitespace and an alias was parsed
C1_Witness ==
    /\ unitText = <<"0", ".", "1", " ", "i", "n">>
    /\ unitResult = [unit |-> "inch", factor |-> [n |-> 1, d |-> 10]]

----------------------------------------------------------------------------
(* utils/measurements.py: parse_distance *)

(* float(value) on a text in plain decimal notation: surrounding whitespace *)
(* is dropped, then an optional sign and digits with at most one point and  *)
(* at least one digit; the exact value, or NONE for ValueError.  Exponents, *)
(* "inf", "nan" and digit separators are outside the texts modelled.        *)
RECURSIVE StripLeft(_)
StripLeft(s) == IF s # <<>> /\ s[1] \in Spaces THEN StripLeft(Tail(s)) ELSE s

RECURSIVE StripRight(_)
StripRight(s) ==
    IF s # <<>> /\ s[Len(s)] \in Spaces
    THEN StripRight(SubSeq(s, 1, Len(s) - 1))
    ELSE s

PyFloat(text) ==
    LET s    == StripRight(StripLeft(text))
        body == IF s # <<>> /\ s[1] \in {"+", "-"} THEN Tail(s) ELSE s
        dots == {i \in 1..Len(body) : body[i] = "."}
    IN  IF /\ \E i \in 1..Len(body) : body[i] \in Digits
           /\ Cardinality(dots) <= 1
           /\ \A i \in 1..Len(body) : body[i] \in Digits \cup {"."}
        THEN DecimalValue(s)
        ELSE NONE

\* parse_distance without the test of the factor
ParseDistanceAnyFactor(value, unit) ==
    IF value = NOTEXT \/ unit = NOTEXT THEN NONE
    ELSE LET float_value == PyFloat(value)
         IN  IF float_value = NONE THEN NONE
             ELSE LET parsed_unit == ParseUnit(unit)
                  IN  IF parsed_unit = NONE THEN NONE
                      ELSE [value |-> float_value, unit |-> parsed_unit.unit]

ParseDistance(value, unit) ==
    IF value = NOTEXT \/ unit = NOTEXT THEN NONE
    ELSE LET float_value == PyFloat(value)
         IN  IF float_value = NONE THEN NONE
             ELSE LET parsed_unit == ParseUnit(unit)
                  IN  IF parsed_unit = NONE THEN NONE
                      ELSE IF ~SameNumber(parsed_unit.factor, One) THEN NONE
                      ELSE [value |-> float_value, unit |-> parsed_unit.unit]

(* Inputs of parse_distance *)

ValueAlphabet == {"-", ".", "1", "a"}

ValueLiterals ==
    { <<"1", "2", ".", "5">>, <<"a", "b", "c">>, <<" ", "1", "2", ".", "5", "\n">>,
      <<"+", "0", ".", "5", "0">>, <<"1", " ", "2">>, <<"0">> }

ValueTexts == TextsUpTo(ValueAlphabet, MaxDistLen) \cup ValueLiterals

DistUnitAlphabet == {"1", ".", " ", "m"}

DistUnitLiterals ==
    { <<"f", "t">>, <<"m", "m">>, <<"m", " ", "r", "k", "b">>,
      <<"1", ".", "0", " ", "f", "t">>, <<"1", "2", " ", "i", "n">>,
      <<"0", ".", "1", " ", "i", "n">>, <<"f", "e", "e", "t">>,
      <<"b", "a", "n", "a", "n", "a">>, <<"F", "T">> }

DistUnitTexts == TextsUpTo(DistUnitAlphabet, MaxDistLen) \cup DistUnitLiterals

(* Specification of parse_distance: one call on any pair of arguments *)

InitDist ==
    /\ distArgs \in [value : ValueTexts \cup {NOTEXT}, unit : DistUnitTexts \cup {NOTEXT}]
    /\ distResult = PENDING
    /\ OthersIdle("dist")

CallParseDistance ==
    /\ distResult = PENDING
    /\ distResult' = ParseDistance(distArgs.value, distArgs.unit)
    /\ UNCHANGED distArgs
    /\ OthersUnchanged("dist")

NextDist == CallParseDistance

SpecDist == InitDist /\ [][NextDist]_vars

\* both arguments present, the value a number, the unit parsed with factor 1.0
C2Resolves(args) ==
    /\ args.value # NOTEXT
    /\ args.unit # NOTEXT
    /\ PyFloat(args.value) # NONE
    /\ ParseUnit(args.unit) # NONE
    /\ ParseUnit(args.unit).factor.n = ParseUnit(args.unit).factor.d

(* C2: parse_distance returns a Distance exactly when both arguments are    *)
(* present, the value text is a number, parse_unit accepts the unit text    *)
(* and its factor is 1.0; the Distance carries the number unscaled and the  *)
(* canonical unit.  In every other case it returns None.                    *)
C2_ParseDistanceContract ==
    distResult # PENDING =>
        IF C2Resolves(distArgs)
        THEN distResult = [value |-> PyFloat(distArgs.value),
                           unit  |-> ParseUnit(distArgs.unit).unit]
        ELSE distResult = NONE

\* C2 witness: a value with a unit of factor 1.0 gave a Distance, "12.5 ft"
C2_Witness ==
    /\ distArgs = [value |-> <<"1", "2", ".", "5">>, unit |-> <<"f", "t">>]
    /\ distResult = [value |-> [n |-> 125, d |-> 10], unit |-> "foot"]

----------------------------------------------------------------------------
(* utils/__init__.py: clean_name *)

StartsWith(s, prefix) ==
    Len(s) >= Len(prefix) /\ SubSeq(s, 1, Len(prefix)) = prefix

Contains(s, part) ==
    \E i \in 0..(Len(s) - Len(part)) : SubSeq(s, i + 1, i + Len(part)) = part

DropFirst(s, k) == SubSeq(s, k + 1, Len(s))

WELL == <<"W", "e", "l", "l">>

WELLBORE == <<"W", "e", "l", "l", "b", "o", "r", "e">>

\* re.sub("[\r\n ]+", " ", s): every run of \r, \n and spaces becomes one space
RECURSIVE CollapseBlanks(_)
CollapseBlanks(s) ==
    IF s = <<>> THEN <<>>
    ELSE IF s[1] \in {"\r", "\n", " "}
    THEN IF Len(s) >= 2 /\ s[2] \in {"\r", "\n", " "}
         THEN CollapseBlanks(Tail(s))
         ELSE <<" ">> \o CollapseBlanks(Tail(s))
    ELSE <<s[1]>> \o CollapseBlanks(Tail(s))

(* re.sub("Wellbore|Well", "", s): one scan from the left, the matches not  *)
(* overlapping, Wellbore tried before Well at each position; the text that  *)
(* the removals bring together is not scanned again.                        *)
RECURSIVE RemoveWellTokens(_)
RemoveWellTokens(s) ==
    IF s = <<>> THEN <<>>
    ELSE IF StartsWith(s, WELLBORE) THEN RemoveWellTokens(DropFirst(s, Len(WELLBORE)))
    ELSE IF StartsWith(s, WELL) THEN RemoveWellTokens(DropFirst(s, Len(WELL)))
    ELSE <<s[1]>> \o RemoveWellTokens(Tail(s))

\* "[- ]$" in place of "[- ]+$": one trailing character only
StripOneTrailing(s) ==
    IF s # <<>> /\ s[Len(s)] \in {"-", " "} THEN SubSeq(s, 1, Len(s) - 1) ELSE s

\* re.sub("[- ]+$", "", s): the trailing run of hyphens and spaces is removed
RECURSIVE StripTrailing(_)
StripTrailing(s) ==
    IF s # <<>> /\ s[Len(s)] \in {"-", " "}
    THEN StripTrailing(SubSeq(s, 1, Len(s) - 1))
    ELSE s

CleanName(s) == StripTrailing(RemoveWellTokens(CollapseBlanks(s)))

(* Inputs of clean_name: texts put together from the letters and tokens of  *)
(* "Well" and "Wellbore", spaces, newlines and hyphens.                     *)

NamePieces ==
    { <<"W">>, <<"e">>, <<"l">>, <<"e", "l", "l">>, WELL, <<"b", "o", "r", "e">>,
      <<" ">>, <<"\n">>, <<"-">> }

RECURSIVE PiecedTexts(_, _)
PiecedTexts(P, n) ==
    IF n = 0 THEN {<<>>}
    ELSE LET shorter == PiecedTexts(P, n - 1)
         IN  shorter \cup {s \o q : s \in shorter, q \in P}

NameTexts == PiecedTexts(NamePieces, MaxPieces)

(* Specification of clean_name: the function applied to a text, and again   *)
(* to its own result.                                                       *)

InitName ==
    /\ names \in {<<x>> : x \in NameTexts}
    /\ OthersIdle("name")

CallCleanName ==
    /\ Len(names) \in 1..2
    /\ names' = Append(names, CleanName(names[Len(names)]))
    /\ OthersUnchanged("name")

NextName == CallCleanName

SpecName == InitName /\ [][NextName]_vars

----------------------------------------------------------------------------
(* utils/measurements.py: _parse, measured_depth *)

UpperLetters ==
    <<"A", "B", "C", "D", "E", "F", "G", "H", "I", "J", "K", "L", "M",
      "N", "O", "P", "Q", "R", "S", "T", "U", "V", "W", "X", "Y", "Z">>

LowerLetters ==
    <<"a", "b", "c", "d", "e", "f", "g", "h", "i", "j", "k", "l", "m",
      "n", "o", "p", "q", "r", "s", "t", "u", "v", "w", "x", "y", "z">>

LowerChar(c) ==
    IF c \in Uppers
    THEN LowerLetters[CHOOSE i \in 1..Len(UpperLetters) : UpperLetters[i] = c]
    ELSE c

\* str.lower()
Lower(s) == [i \in 1..Len(s) |-> LowerChar(s[i])]

\* dict.get(key, ""): the text stored, "" when the key is missing
GetOrEmpty(field) == IF field = NOTEXT THEN <<>> ELSE field

DepthIds ==
    { <<"m", "d">>, <<"t", "d", "e", "p">>, <<"d", "e", "p", "t", "h">>,
      <<"d", "e", "p", "t">> }

\* measured_depth reporting the lower-cased identifier of _parse
MeasuredDepthLowerId(col) ==
    LET unit        == Lower(GetOrEmpty(col.unit))
        external_id == Lower(GetOrEmpty(col.externalId))
    IN  IF external_id \in DepthIds
        THEN LET parsed_unit == ParseUnit(unit)
             IN  IF parsed_unit = NONE THEN NONE
                 ELSE [column_external_id |-> external_id,
                       unit               |-> parsed_unit,
                       type               |-> "measured depth"]
        ELSE NONE

(* col.unit is the entry "unit" of the column's metadata, NOTEXT when the   *)
(* metadata or the entry is missing; col.externalId likewise.               *)
MeasuredDepth(col) ==
    LET unit        == Lower(GetOrEmpty(col.unit))
        external_id == GetOrEmpty(col.externalId)
    IN  IF Lower(external_id) \in DepthIds
        THEN LET parsed_unit == ParseUnit(unit)
             IN  IF parsed_unit = NONE THEN NONE
                 ELSE [column_external_id |-> external_id,
                       unit               |-> parsed_unit,
                       type               |-> "measured depth"]
        ELSE NONE

(* Inputs of measured_depth *)

ColumnIds ==
    { <<"m", "d">>, <<"M", "D">>, <<"M", "d">>, <<"t", "d", "e", "p">>,
      <<"T", "D", "E", "P">>, <<"d", "e", "p", "t", "h">>, <<"D", "e", "p", "t", "h">>,
      <<"d", "e", "p", "t">>, <<"D", "E", "P", "T">>, <<"m", "d", "x">>,
      <<"d", "e", "p", "t", "h", "s">>, <<" ", "m", "d">>, <<"m">>, <<"G", "R">>,
      <<>>, NOTEXT }

DepthUnitAlphabet == {"1", " ", "m", "M"}

DepthUnitLiterals ==
    { <<"f", "t">>, <<"F", "T">>, <<"F", "e", "e", "t">>, <<"m", " ", "r", "k", "b">>,
      <<"M", " ", "R", "K", "B">>, <<"m", "m">>, <<"0", ".", "1", " ", "I", "N">>,
      <<"0", ".", "1", " ", "i", "n">>, <<"b", "a", "n", "a", "n", "a">>, NOTEXT }

DepthUnitTexts == TextsUpTo(DepthUnitAlphabet, MaxDepthUnitLen) \cup DepthUnitLiterals

(* Specification of measured_depth: one call on any column *)

InitDepth ==
    /\ column \in [externalId : ColumnIds, unit : DepthUnitTexts]
    /\ depthResult = PENDING
    /\ OthersIdle("depth")

CallMeasuredDepth ==
    /\ depthResult = PENDING
    /\ depthResult' = MeasuredDepth(column)
    /\ UNCHANGED column
    /\ OthersUnchanged("depth")

NextDepth == CallMeasuredDepth

SpecDepth == InitDepth /\ [][NextDepth]_vars

\* the identifier is, whatever its case, one of md, tdep, depth, dept
C4IsDepthId(id) ==
    /\ id # NOTEXT
    /\ Lower(id) \in { <<"m", "d">>, <<"t", "d", "e", "p">>,
                       <<"d", "e", "p", "t", "h">>, <<"d", "e", "p", "t">> }

(* C4 as stated: a result is returned only when the identifier is one of    *)
(* the four and parse_unit succeeds on the declared unit text; the result   *)
(* carries the column's identifier, that parsed unit and "measured depth".  *)
C4_MeasuredDepth_Original ==
    (depthResult # PENDING /\ depthResult # NONE) =>
        /\ C4IsDepthId(column.externalId)
        /\ column.unit # NOTEXT
        /\ ParseUnit(column.unit) # NONE
        /\ depthResult = [column_external_id |-> column.externalId,
                          unit               |-> ParseUnit(column.unit),
                          type               |-> "measured depth"]

(* C4 as amended: a result is returned only when the identifier is one of   *)
(* the four and parse_unit succeeds on the lower-cased declared unit text;  *)
(* the result carries the column's identifier as declared, the parsed unit  *)
(* of the lower-cased text and "measured depth".                            *)
C4_MeasuredDepthLowerCasedUnit ==
    (depthResult # PENDING /\ depthResult # NONE) =>
        /\ C4IsDepthId(column.externalId)
        /\ column.unit # NOTEXT
        /\ ParseUnit(Lower(column.unit)) # NONE
        /\ depthResult = [column_external_id |-> column.externalId,
                          unit               |-> ParseUnit(Lower(column.unit)),
                          type               |-> "measured depth"]

\* C4 witness: an upper-case identifier with a parsable unit gave a result
C4_Witness ==
    /\ column = [externalId |-> <<"T", "D", "E", "P">>, unit |-> <<"f", "t">>]
    /\ depthResult # PENDING
    /\ depthResult # NONE

----------------------------------------------------------------------------
(* utils/measurements.py: _find_first_match, measurement_columns *)

\* matches[-1] in place of the first element
FindLastMatch(col, matches) ==
    IF matches = <<>> THEN NONE ELSE matches[Len(matches)]

\* next((x for x in matches), None)
FindFirstMatch(col, matches) ==
    IF matches = <<>> THEN NONE ELSE matches[1]

(* A FindBestMatchCallable: the default, and callables a caller may pass,   *)
(* each from (column, matches) to a match or None.                          *)
FindBestMatch(selector, col, matches) ==
    CASE selector = "first"  -> FindFirstMatch(col, matches)
      [] selector = "last"   -> IF matches = <<>> THEN NONE ELSE matches[Len(matches)]
      [] selector = "reject" -> NONE
      [] selector = "density" ->
            LET hits == {i \in 1..Len(matches) : matches[i].measurement_type = "density"}
            IN  IF hits = {} THEN NONE
                ELSE matches[CHOOSE i \in hits : \A j \in hits : i <= j]

\* col["metadata"].get("unit", "")
DeclaredUnit(col) ==
    IF "unit" \in DOMAIN col.metadata THEN col.metadata.unit ELSE ""

(* The loop over zip(columns, response) from pair i on: zip ends with the   *)
(* shorter of the two.                                                      *)
RECURSIVE MeasurementColumnsFrom(_, _, _, _)
MeasurementColumnsFrom(columns, response, selector, i) ==
    IF i > Len(columns) \/ i > Len(response) THEN <<>>
    ELSE LET col     == columns[i]
             matches == response[i]
             match   == FindBestMatch(selector, col, matches.matches)
             rest    == MeasurementColumnsFrom(columns, response, selector, i + 1)
         IN  IF match = NONE THEN rest
             ELSE << [measurement_type   |-> match.measurement_type,
                      unit               |-> DeclaredUnit(col),
                      column_external_id |-> matches.mnemonic] >> \o rest

MeasurementColumns(columns, response, selector) ==
    MeasurementColumnsFrom(columns, response, selector, 1)

(* Inputs of measurement_columns: the columns, the answer of the mnemonic   *)
(* search (any number of groups up to one for each column) and the callable *)

MaxColumns == 3

SeqsUpTo(S, n) == UNION {[1..k -> S] : k \in 0..n}

SomeColumns ==
    { [externalId |-> "GR",   metadata |-> [unit |-> "m"]],
      [externalId |-> "RHOB", metadata |-> [unit |-> "FT "]],
      [externalId |-> "X",    metadata |-> [description |-> "no unit"]] }

GammaRay == [measurement_type |-> "gamma ray", mnemonic |-> "GR"]

Density == [measurement_type |-> "density", mnemonic |-> "RHOB"]

SomeGroups ==
    { [mnemonic |-> "X",   matches |-> <<>>],
      [mnemonic |-> "GR",  matches |-> <<GammaRay>>],
      [mnemonic |-> "GR",  matches |-> <<GammaRay, Density>>],
      [mnemonic |-> "DEN", matches |-> <<Density, GammaRay>>] }

Selectors == {"first", "last", "reject", "density"}

(* Specification of measurement_columns: one call *)

InitCol ==
    /\ \E columns \in SeqsUpTo(SomeColumns, MaxColumns) :
       \E k \in 0..Len(columns) :
       \E response \in [1..k -> SomeGroups] :
       \E selector \in Selectors :
            colArgs = [columns |-> columns, response |-> response, selector |-> selector]
    /\ colResult = PENDING
    /\ OthersIdle("col")

CallMeasurementColumns ==
    /\ colResult = PENDING
    /\ colResult' = [output |-> MeasurementColumns(colArgs.columns, colArgs.response,
                                                   colArgs.selector)]
    /\ UNCHANGED colArgs
    /\ OthersUnchanged("col")

NextCol == CallMeasurementColumns

SpecCol == InitCol /\ [][NextCol]_vars

\* what the callable in use selects for column i: the default takes the first candidate
C5Selected(i) ==
    LET cands == colArgs.response[i].matches
    IN  IF colArgs.selector = "first"
        THEN IF cands = <<>> THEN NONE ELSE cands[1]
        ELSE FindBestMatch(colArgs.selector, colArgs.columns[i], cands)

C5Kept == {i \in 1..Len(colArgs.columns) : C5Selected(i) # NONE}

\* the k-th kept column, in input order
C5KeptAt(k) == CHOOSE i \in C5Kept : Cardinality({j \in C5Kept : j <= i}) = k

----------------------------------------------------------------------------
(* utils/__init__.py: chunks *)

Min(a, b) == IF a <= b THEN a ELSE b

\* lst[i : j] for 0 <= i <= j: the elements at the 0-based places i .. j-1 that exist
Slice(lst, i, j) == SubSeq(lst, i + 1, Min(j, Len(lst)))

\* range(0, len(lst) - n + 1, n): the groups of full size only
RECURSIVE FullChunksFrom(_, _, _)
FullChunksFrom(lst, n, i) ==
    IF i + n > Len(lst) THEN <<>>
    ELSE <<Slice(lst, i, i + n)>> \o FullChunksFrom(lst, n, i + n)

\* for i in range(0, len(lst), n): yield lst[i : i + n], from the place i on
RECURSIVE ChunksFrom(_, _, _)
ChunksFrom(lst, n, i) ==
    IF i >= Len(lst) THEN <<>>
    ELSE <<Slice(lst, i, i + n)>> \o ChunksFrom(lst, n, i + n)

Chunks(lst, n) == ChunksFrom(lst, n, 0)

(* Inputs of chunks *)

MaxListLen == 5

MaxChunkSize == 3

SomeItems == {"a", "b"}

(* Specification of chunks: one call, the generator run to its end *)

InitChunk ==
    /\ chunkArgs \in [lst : SeqsUpTo(SomeItems, MaxListLen), n : 1..MaxChunkSize]
    /\ chunkResult = PENDING
    /\ OthersIdle("chunk")

CallChunks ==
    /\ chunkResult = PENDING
    /\ chunkResult' = [groups |-> Chunks(chunkArgs.lst, chunkArgs.n)]
    /\ UNCHANGED chunkArgs
    /\ OthersUnchanged("chunk")

NextChunk == CallChunks

SpecChunk == InitChunk /\ [][NextChunk]_vars

RECURSIVE Concat(_)
Concat(groups) ==
    IF groups = <<>> THEN <<>> ELSE groups[1] \o Concat(Tail(groups))

(* C6: the groups chunks(lst, n) yields, put together in order, are lst;    *)
(* every group but the last has n elements, the last between 1 and n; an    *)
(* empty list yields no group.                                              *)
C6_ChunksPartition ==
    chunkResult # PENDING =>
        LET groups == chunkResult.groups
        IN  /\ Concat(groups) = chunkArgs.lst
            /\ \A k \in 1..(Len(groups) - 1) : Len(groups[k]) = chunkArgs.n
            /\ groups # <<>> => Len(groups[Len(groups)]) \in 1..chunkArgs.n
            /\ chunkArgs.lst = <<>> => groups = <<>>

\* C6 witness: five elements in groups of two gave two full groups and a last of one
C6_Witness ==
    /\ chunkResult # PENDING
    /\ Len(chunkArgs.lst) = 5
    /\ chunkArgs.n = 2
    /\ Len(chunkResult.groups) = 3
    /\ Len(chunkResult.groups[3]) = 1

----------------------------------------------------------------------------
(* 02-trajectories.py: create_trajectory_ingestion *)

(* A cell of the sequence data is a number [num |-> v] or NONE.             *)
Num(v) == [num |-> v]

\* the truth value Python gives a cell: None and 0 are false
Truthy(cell) == cell # NONE /\ cell.num # 0

\* the remainder with the sign of the dividend, as C's fmod gives it
TruncatedMod(a, m) == IF a >= 0 THEN a % m ELSE 0 - ((0 - a) % m)

\* a % m for m > 0: Python's remainder has the sign of the divisor
PyMod(a, m) == a - m * (a \div m)

\* find_index: the first place (0-based) of the column, NONE when there is none
FindIndex(columns, extid) ==
    LET hits == {i \in 1..Len(columns) : columns[i] = extid}
    IN  IF hits = {} THEN NONE
        ELSE Num((CHOOSE i \in hits : \A j \in hits : i <= j) - 1)

(* The loop over data.items() from row r on: the rows appended to           *)
(* traj.rows, each with the number of the data row it was made from.        *)
RECURSIVE TrajectoryRowsFrom(_, _, _, _, _, _)
TrajectoryRowsFrom(data, md_index, inc_index, azim_index, factor, r) ==
    IF r > Len(data) THEN <<>>
    ELSE LET values == data[r]
             md     == IF Truthy(values[md_index + 1])
                       THEN Num(values[md_index + 1].num * factor)
                       ELSE NONE
             inc    == values[inc_index + 1]
             azim   == IF Truthy(values[azim_index + 1])
                       THEN Num(PyMod(values[azim_index + 1].num, 360))
                       ELSE NONE
             rest   == TrajectoryRowsFrom(data, md_index, inc_index, azim_index,
                                          factor, r + 1)
         IN  IF md = NONE \/ inc = NONE \/ azim = NONE THEN rest
             ELSE << [measured_depth |-> md, inclination |-> inc, azimuth |-> azim,
                      row_number |-> r] >> \o rest

(* create_trajectory_ingestion(sequence, data, md_column, inclination and   *)
(* azimuth column): [raised] when a column is not in the sequence, NONE     *)
(* when no row is kept, the TrajectoryIngestion [rows] otherwise.  factor   *)
(* is md_column.unit.factor.                                                *)
CreateTrajectoryIngestion(columns, data, md_extid, inc_extid, azim_extid, factor) ==
    LET md_index   == FindIndex(columns, md_extid)
        inc_index  == FindIndex(columns, inc_extid)
        azim_index == FindIndex(columns, azim_extid)
    IN  IF md_index = NONE \/ inc_index = NONE \/ azim_index = NONE
        THEN [raised |-> "Exception"]
        ELSE LET rows == TrajectoryRowsFrom(data, md_index.num, inc_index.num,
                                            azim_index.num, factor, 1)
             IN  IF rows = <<>> THEN NONE ELSE [rows |-> rows]

(* Inputs of create_trajectory_ingestion *)

MaxRows == 2

MdCells == {NONE, Num(0), Num(100)}

IncCells == {NONE, Num(0), Num(45)}

AzimCells == {NONE, Num(0), Num(360), Num(370), Num(-10)}

\* the cells of a row in the order md, inclination, azimuth
SomeRows == MdCells \X IncCells \X AzimCells

\* The sequence's columns and md_column.unit.factor
Layouts ==
    { [columns |-> <<"MeasuredDepth", "Inclination", "Azimuth">>, factor |-> 1],
      [columns |-> <<"Azimuth", "TVD", "MeasuredDepth", "Inclination">>, factor |-> 1],
      [columns |-> <<"MeasuredDepth", "Inclination", "Azimuth">>, factor |-> 2],
      [columns |-> <<"MeasuredDepth", "Inclination">>, factor |-> 1] }

\* the data row of the columns that holds the cells (md, inc, azim); other cells hold 7
RowIn(columns, cells) ==
    [c \in 1..Len(columns) |->
        CASE columns[c] = "MeasuredDepth" -> cells[1]
          [] columns[c] = "Inclination"   -> cells[2]
          [] columns[c] = "Azimuth"       -> cells[3]
          [] OTHER                        -> Num(7)]

(* Specification of create_trajectory_ingestion: one call *)

InitTraj ==
    /\ \E layout \in Layouts :
       \E rows \in SeqsUpTo(SomeRows, MaxRows) :
            trajArgs = [columns |-> layout.columns,
                        factor  |-> layout.factor,
                        cells   |-> rows,
                        data    |-> [r \in 1..Len(rows) |-> RowIn(layout.columns, rows[r])]]
    /\ trajResult = PENDING
    /\ OthersIdle("traj")

CallCreateTrajectoryIngestion ==
    /\ trajResult = PENDING
    /\ trajResult' = CreateTrajectoryIngestion(trajArgs.columns, trajArgs.data,
                          "MeasuredDepth", "Inclination", "Azimuth", trajArgs.factor)
    /\ UNCHANGED trajArgs
    /\ OthersUnchanged("traj")

NextTraj == CallCreateTrajectoryIngestion

SpecTraj == InitTraj /\ [][NextTraj]_vars

\* the call returned: it did not raise for a missing column
C8Returned == trajResult # PENDING /\ trajResult # [raised |-> "Exception"]

\* the data rows in which md, inclination and azimuth are all present
C8Complete ==
    {r \in 1..Len(trajArgs.cells) : \A q \in 1..3 : trajArgs.cells[r][q] # NONE}

C8Emitted == IF trajResult = NONE THEN <<>> ELSE trajResult.rows

(* C8: a data row is discarded if and only if one of its md, inclination    *)
(* and azimuth is None: the rows emitted are, in input order, the rows with *)
(* all three present, a md or azimuth of 0 included; None is returned when  *)
(* every row is discarded.                                                  *)
C8_DiscardOnlyAbsent ==
    C8Returned =>
        /\ Len(C8Emitted) = Cardinality(C8Complete)
        /\ \A k \in 1..Len(C8Emitted) :
              /\ C8Emitted[k].row_number \in C8Complete
              /\ Cardinality({r \in C8Complete : r <= C8Emitted[k].row_number}) = k
        /\ (trajResult = NONE) <=> (C8Complete = {})

(* C9: every emitted row has an azimuth in [0, 360) congruent modulo 360 to *)
(* the azimuth of the data row it was made from, and that row's inclination *)
C9_AzimuthNormalised ==
    C8Returned =>
        \A k \in 1..Len(C8Emitted) :
            LET row   == C8Emitted[k]
                cells == trajArgs.cells[row.row_number]
            IN  /\ row.azimuth.num >= 0
                /\ row.azimuth.num < 360
                /\ (row.azimuth.num - cells[3].num) % 360 = 0
                /\ row.inclination = cells[2]

\* C9 witness: azimuths 370 and -10 were emitted as 10 and 350
C9_Witness ==
    /\ C8Returned
    /\ Len(C8Emitted) = 2
    /\ trajArgs.cells[1][3] = Num(370)
    /\ trajArgs.cells[2][3] = Num(-10)
    /\ C8Emitted[1].azimuth = Num(10)
    /\ C8Emitted[2].azimuth = Num(350)

----------------------------------------------------------------------------
(* 01-wells-and-wellbores.py and edm_wells.py: the two well mappers         *)
(*                                                                          *)
(* A well asset is [external_id, name, located]: located says that the      *)
(* metadata holds the longitude and latitude keys the mapper reads.  A      *)
(* wellbore asset is [external_id, parent_external_id, name, elevation]:    *)
(* elevation is the text of its datum elevation, NOTEXT when its metadata   *)
(* names no datum.  Of an ingestion record the model keeps the fields below;*)
(* description, wellhead, water depth, operator and spud date are copied    *)
(* or parsed from the asset without a branch or an exception of their own.  *)

SelectWellbores(wellbore_assets, parent) ==
    SelectSeq(wellbore_assets, LAMBDA wb : wb.parent_external_id = parent)

WellRecord(well_asset, source_name) ==
    [name              |-> CleanName(well_asset.name),
     matching_id       |-> CleanName(well_asset.name),
     asset_external_id |-> well_asset.external_id,
     source_name       |-> source_name]

WellboreRecord(wellbore, well_asset, source_name, datum) ==
    [name                   |-> CleanName(wellbore.name),
     matching_id            |-> CleanName(wellbore.external_id),
     well_asset_external_id |-> well_asset.external_id,
     asset_external_id      |-> wellbore.external_id,
     source_name            |-> source_name,
     datum                  |-> datum]

\* the local variable datum of the OSDU mapper before its first assignment
UNBOUND == [unbound |-> TRUE]

(* ingest_wells_and_wellbores_osdu, the inner loop over the wellbores of a  *)
(* well from the k-th on.  acc is [wells, wellbores, datum, raised]: the    *)
(* two lists, the local variable datum and the exception raised, if any.    *)
(* datum is assigned only when both keys are present: otherwise the record  *)
(* is built from what the variable holds, and reading it unbound raises.    *)
RECURSIVE OsduWellbores(_, _, _, _)
OsduWellbores(wellbores, k, well_asset, acc) ==
    IF k > Len(wellbores) \/ acc.raised # "no" THEN acc
    ELSE LET wellbore == wellbores[k]
             datum    == IF wellbore.elevation # NOTEXT
                         THEN [value     |-> PyFloat(wellbore.elevation),
                               unit      |-> "meter",
                               reference |-> "KB"]
                         ELSE acc.datum
         IN  IF datum = UNBOUND
             THEN [acc EXCEPT !.raised = "UnboundLocalError"]
             ELSE OsduWellbores(wellbores, k + 1, well_asset,
                    [acc EXCEPT !.datum = datum,
                                !.wellbores = Append(@,
                                    WellboreRecord(wellbore, well_asset, "OSDU", datum))])

\* the loop over well_assets from the i-th on
RECURSIVE OsduWells(_, _, _, _)
OsduWells(well_assets, wellbore_assets, i, acc) ==
    IF i > Len(well_assets) \/ acc.raised # "no" THEN acc
    ELSE LET well_asset == well_assets[i]
             wellbores  == SelectWellbores(wellbore_assets, well_asset.external_id)
         IN  IF ~well_asset.located
             THEN [acc EXCEPT !.raised = "KeyError"]
             ELSE OsduWells(well_assets, wellbore_assets, i + 1,
                    OsduWellbores(wellbores, 1, well_asset,
                        [acc EXCEPT !.wells =
                            Append(@, WellRecord(well_asset, "OSDU"))]))

\* lines 49-107 of ingest_wells_and_wellbores_osdu: the records built, or the exception
MapOsdu(well_assets, wellbore_assets) ==
    OsduWells(well_assets, wellbore_assets, 1,
        [wells |-> <<>>, wellbores |-> <<>>, datum |-> UNBOUND, raised |-> "no"])

(* ingest_wells_and_wellbores_edm, the inner loop.  The datum asset of a    *)
(* wellbore that names one holds its elevation in feet.                     *)
RECURSIVE EdmWellbores(_, _, _, _)
EdmWellbores(wellbores, k, well_asset, acc) ==
    IF k > Len(wellbores) THEN acc
    ELSE LET wellbore == wellbores[k]
             datum    == IF wellbore.elevation # NOTEXT
                         THEN ParseDistance(wellbore.elevation, <<"f", "t">>)
                         ELSE NONE
         IN  EdmWellbores(wellbores, k + 1, well_asset,
                [acc EXCEPT !.wellbores = Append(@,
                    WellboreRecord(wellbore, well_asset, "EDM", datum))])

\* the EDM loop without the continue: a well whose matching id was seen is not
\* appended, and its wellbores are
RECURSIVE EdmWellsNoContinue(_, _, _, _)
EdmWellsNoContinue(well_assets, wellbore_assets, i, acc) ==
    IF i > Len(well_assets) \/ acc.raised # "no" THEN acc
    ELSE LET well_asset == well_assets[i]
             wellbores  == SelectWellbores(wellbore_assets, well_asset.external_id)
             wi         == WellRecord(well_asset, "EDM")
         IN  IF ~well_asset.located
             THEN [acc EXCEPT !.raised = "KeyError"]
             ELSE EdmWellsNoContinue(well_assets, wellbore_assets, i + 1,
                    EdmWellbores(wellbores, 1, well_asset,
                        IF wi.matching_id \in acc.well_matching_ids THEN acc
                        ELSE [acc EXCEPT !.wells = Append(@, wi),
                                         !.well_matching_ids = @ \cup {wi.matching_id}]))

(* the loop over well_assets from the i-th on; acc is [wells, wellbores,    *)
(* well_matching_ids, raised].  A well whose matching id was seen is        *)
(* skipped with its wellbores, after its longitude and latitude were read.  *)
RECURSIVE EdmWells(_, _, _, _)
EdmWells(well_assets, wellbore_assets, i, acc) ==
    IF i > Len(well_assets) \/ acc.raised # "no" THEN acc
    ELSE LET well_asset == well_assets[i]
             wellbores  == SelectWellbores(wellbore_assets, well_asset.external_id)
             wi         == WellRecord(well_asset, "EDM")
         IN  IF ~well_asset.located
             THEN [acc EXCEPT !.raised = "KeyError"]
             ELSE IF wi.matching_id \in acc.well_matching_ids
             THEN EdmWells(well_assets, wellbore_assets, i + 1, acc)
             ELSE EdmWells(well_assets, wellbore_assets, i + 1,
                    EdmWellbores(wellbores, 1, well_asset,
                        [acc EXCEPT !.wells = Append(@, wi),
                                    !.well_matching_ids = @ \cup {wi.matching_id}]))

\* lines 60-128 of ingest_wells_and_wellbores_edm: the records built, or the exception
MapEdm(well_assets, wellbore_assets) ==
    EdmWells(well_assets, wellbore_assets, 1,
        [wells |-> <<>>, wellbores |-> <<>>, well_matching_ids |-> {}, raised |-> "no"])

\* the mapping loops of the mapper named
MapRecords(mapper, well_assets, wellbore_assets) ==
    IF mapper = "osdu"
    THEN MapOsdu(well_assets, wellbore_assets)
    ELSE MapEdm(well_assets, wellbore_assets)

----------------------------------------------------------------------------
(* The runs: a well mapper from its first line to its last upload           *)
(* (01-wells-and-wellbores.py lines 48-115, edm_wells.py lines 57-136), and *)
(* the chunk loop of 02-trajectories.py main (lines 96-135).  An ingest     *)
(* call of the destination returns or raises.                               *)

\* Size of an upload group: stands for the 1000 of the well mappers and the 10 of main
ChunkSize == 2

MaxWells == 3

MaxSequences == 3

GroupsOf(records) == Chunks(records, ChunkSize)

\* a mapper that starts on the wellbores as soon as one well group returned
WellboresAfterOneWellGroup(k, m) ==
    IF m.wellbores # <<>> THEN [pc |-> "wellbores", groupNo |-> 1]
    ELSE IF k < Len(Chunks(m.wells, ChunkSize)) THEN [pc |-> "wells", groupNo |-> k + 1]
    ELSE [pc |-> "done", groupNo |-> 1]

\* where a well mapper stands after the well group k returned
AfterWellGroup(k, m) ==
    IF k < Len(GroupsOf(m.wells)) THEN [pc |-> "wells", groupNo |-> k + 1]
    ELSE IF m.wellbores # <<>> THEN [pc |-> "wellbores", groupNo |-> 1]
    ELSE [pc |-> "done", groupNo |-> 1]

AfterWellboreGroup(k, m) ==
    IF k < Len(GroupsOf(m.wellbores)) THEN [pc |-> "wellbores", groupNo |-> k + 1]
    ELSE [pc |-> "done", groupNo |-> 1]

AfterSequenceGroup(k, seqs) ==
    IF k < Len(GroupsOf(seqs)) THEN [pc |-> "trajectories", groupNo |-> k + 1]
    ELSE [pc |-> "done", groupNo |-> 1]

\* a mapper that logs the failure of a group and goes on with the next one
ContinueAfterIngestRaised(api, k, m) ==
    IF api = "wells" THEN AfterWellGroup(k, m) ELSE AfterWellboreGroup(k, m)

\* where a well mapper stands after an ingest call of group k raised: no handler
\* encloses the call, and the exception leaves the mapper
AfterIngestRaised(api, k, m) == [pc |-> "aborted", groupNo |-> k]

\* where main stands after the ingest call of group k raised: the handler logs
\* it and the loop goes on
AfterTrajectoryIngestRaised(k, seqs) == AfterSequenceGroup(k, seqs)

Call(api, k, records, raised) ==
    [api |-> api, group |-> k, records |-> records, raised |-> raised]

\* the mapping loops of the mapper; an exception leaves the mapper before any upload
MapAssets ==
    /\ pc = "map"
    /\ LET m    == MapRecords(program, wellAssets, wellboreAssets)
           next == AfterWellGroup(0, m)
       IN  /\ mapped' = m
           /\ pc' = IF m.raised # "no" THEN "aborted" ELSE next.pc
           /\ groupNo' = 1
    /\ UNCHANGED <<program, wellAssets, wellboreAssets, sequences, calls>>
    /\ OthersUnchanged("run")

\* wm.wells.ingest(wi_chunk) returns
IngestWellsReturns ==
    /\ pc = "wells"
    /\ LET next == AfterWellGroup(groupNo, mapped)
       IN  /\ calls' = Append(calls,
                  Call("wells", groupNo, GroupsOf(mapped.wells)[groupNo], FALSE))
           /\ pc' = next.pc
           /\ groupNo' = next.groupNo
    /\ UNCHANGED <<program, wellAssets, wellboreAssets, sequences, mapped>>
    /\ OthersUnchanged("run")

\* wm.wells.ingest(wi_chunk) raises: nothing in the mapper catches it
IngestWellsRaises ==
    /\ pc = "wells"
    /\ LET next == AfterIngestRaised("wells", groupNo, mapped)
       IN  /\ calls' = Append(calls,
                  Call("wells", groupNo, GroupsOf(mapped.wells)[groupNo], TRUE))
           /\ pc' = next.pc
           /\ groupNo' = next.groupNo
    /\ UNCHANGED <<program, wellAssets, wellboreAssets, sequences, mapped>>
    /\ OthersUnchanged("run")

\* wm.wellbores.ingest(wb_chunk) returns
IngestWellboresReturns ==
    /\ pc = "wellbores"
    /\ LET next == AfterWellboreGroup(groupNo, mapped)
       IN  /\ calls' = Append(calls,
                  Call("wellbores", groupNo, GroupsOf(mapped.wellbores)[groupNo], FALSE))
           /\ pc' = next.pc
           /\ groupNo' = next.groupNo
    /\ UNCHANGED <<program, wellAssets, wellboreAssets, sequences, mapped>>
    /\ OthersUnchanged("run")

\* wm.wellbores.ingest(wb_chunk) raises: nothing in the mapper catches it
IngestWellboresRaises ==
    /\ pc = "wellbores"
    /\ LET next == AfterIngestRaised("wellbores", groupNo, mapped)
       IN  /\ calls' = Append(calls,
                  Call("wellbores", groupNo, GroupsOf(mapped.wellbores)[groupNo], TRUE))
           /\ pc' = next.pc
           /\ groupNo' = next.groupNo
    /\ UNCHANGED <<program, wellAssets, wellboreAssets, sequences, mapped>>
    /\ OthersUnchanged("run")

\* the outcome of create_trajectory_ingestion for each sequence of a group
GroupIngestions(group) ==
    [t \in 1..Len(group) |->
        CreateTrajectoryIngestion(group[t].columns, group[t].data,
            "MeasuredDepth", "Inclination", "Azimuth", 1)]

\* trajectory_ingestions: the outcomes that are not None
KeptIngestions(outcomes) == SelectSeq(outcomes, LAMBDA ti : ti # NONE)

CreationRaises(outcomes) ==
    \E t \in 1..Len(outcomes) : outcomes[t] = [raised |-> "Exception"]

\* one turn of the chunk loop in which wm.trajectories.ingest returns
IngestTrajectoriesReturns ==
    /\ pc = "trajectories"
    /\ LET outcomes == GroupIngestions(GroupsOf(sequences)[groupNo])
           next     == AfterSequenceGroup(groupNo, sequences)
       IN  /\ ~CreationRaises(outcomes)
           /\ calls' = Append(calls,
                  Call("trajectories", groupNo, KeptIngestions(outcomes), FALSE))
           /\ pc' = next.pc
           /\ groupNo' = next.groupNo
    /\ UNCHANGED <<program, wellAssets, wellboreAssets, sequences, mapped>>
    /\ OthersUnchanged("run")

\* one turn in which wm.trajectories.ingest raises: the except clause logs it
IngestTrajectoriesRaises ==
    /\ pc = "trajectories"
    /\ LET outcomes == GroupIngestions(GroupsOf(sequences)[groupNo])
           next     == AfterTrajectoryIngestRaised(groupNo, sequences)
       IN  /\ ~CreationRaises(outcomes)
           /\ calls' = Append(calls,
                  Call("trajectories", groupNo, KeptIngestions(outcomes), TRUE))
           /\ pc' = next.pc
           /\ groupNo' = next.groupNo
    /\ UNCHANGED <<program, wellAssets, wellboreAssets, sequences, mapped>>
    /\ OthersUnchanged("run")

\* one turn in which create_trajectory_ingestion raises: main does not catch it
CreateTrajectoryRaises ==
    /\ pc = "trajectories"
    /\ CreationRaises(GroupIngestions(GroupsOf(sequences)[groupNo]))
    /\ pc' = "aborted"
    /\ UNCHANGED <<program, wellAssets, wellboreAssets, sequences, mapped, groupNo, calls>>
    /\ OthersUnchanged("run")

(* Inputs of the runs *)

DigitChars == <<"1", "2", "3", "4", "5", "6", "7", "8", "9">>

WellId(i) == <<"w", DigitChars[i]>>

WellboreId(j) == <<"b", DigitChars[j]>>

\* cleaned: A, A, B, C
WellNames ==
    { <<"A">>, <<"A", " ", "W", "e", "l", "l">>, <<"B", "-">>, <<"C">> }

\* a wellbore: its parent (a well's place in the input, 9: no input well) and
\* whether its metadata names a datum
Bore(parent, datum) == [parent |-> parent, datum |-> datum]

SomeWellbores ==
    { <<>>,
      <<Bore(1, TRUE)>>,
      <<Bore(1, FALSE)>>,
      <<Bore(1, TRUE), Bore(1, FALSE)>>,
      <<Bore(1, FALSE), Bore(1, TRUE)>>,
      <<Bore(2, FALSE), Bore(1, TRUE)>>,
      <<Bore(9, TRUE), Bore(1, TRUE)>>,
      <<Bore(2, TRUE), Bore(9, FALSE)>>,
      <<Bore(1, TRUE), Bore(1, TRUE), Bore(2, TRUE)>>,
      <<Bore(1, TRUE), Bore(2, TRUE), Bore(3, TRUE), Bore(4, TRUE)>> }

WellAssetsOf(wellNames, unlocated) ==
    [i \in 1..Len(wellNames) |->
        [external_id |-> WellId(i), name |-> wellNames[i], located |-> i # unlocated]]

WellboreAssetsOf(kinds) ==
    [j \in 1..Len(kinds) |->
        [external_id        |-> WellboreId(j),
         parent_external_id |-> WellId(kinds[j].parent),
         name               |-> <<"W", "e", "l", "l", "b", "o", "r", "e", " ", DigitChars[j]>>,
         elevation          |-> IF kinds[j].datum THEN <<DigitChars[j], "0">> ELSE NOTEXT]]

SomeSequences ==
    { [columns |-> <<"MeasuredDepth", "Inclination", "Azimuth">>,
       data    |-> << <<Num(100), Num(45), Num(370)>>, <<Num(200), NONE, Num(10)>> >>],
      [columns |-> <<"MeasuredDepth", "Inclination", "Azimuth">>,
       data    |-> << <<Num(100), NONE, Num(10)>> >>],
      [columns |-> <<"MeasuredDepth", "Inclination">>,
       data    |-> << <<Num(100), Num(45)>> >>] }

(* Specification of the runs *)

InitRun ==
    /\ program \in {"osdu", "edm", "trajectories"}
    /\ IF program = "trajectories"
       THEN /\ sequences \in SeqsUpTo(SomeSequences, MaxSequences)
            /\ wellAssets = <<>>
            /\ wellboreAssets = <<>>
            /\ pc = IF sequences = <<>> THEN "done" ELSE "trajectories"
       ELSE /\ sequences = <<>>
            /\ \E wellNames \in SeqsUpTo(WellNames, MaxWells) :
               \E unlocated \in 0..Len(wellNames) :
                    wellAssets = WellAssetsOf(wellNames, unlocated)
            /\ \E kinds \in SomeWellbores :
                    wellboreAssets = WellboreAssetsOf(kinds)
            /\ pc = "map"
    /\ mapped = PENDING
    /\ groupNo = 1
    /\ calls = <<>>
    /\ OthersIdle("run")

NextRun ==
    \/ MapAssets
    \/ IngestWellsReturns
    \/ IngestWellsRaises
    \/ IngestWellboresReturns
    \/ IngestWellboresRaises
    \/ IngestTrajectoriesReturns
    \/ IngestTrajectoriesRaises
    \/ CreateTrajectoryRaises

SpecRun == InitRun /\ [][NextRun]_vars

(* Properties of the runs *)

WellMapperRan ==
    /\ program \in {"osdu", "edm"}
    /\ mapped # PENDING
    /\ mapped.raised = "no"

\* the places of the emitted well records that carry the matching id
RecordsWithId(id) == { r \in 1..Len(mapped.wells) : mapped.wells[r].matching_id = id }

\* the first input well whose cleaned name is the one of input well i
FirstOccurrence(i) ==
    CHOOSE j \in 1..i :
        /\ CleanName(wellAssets[j].name) = CleanName(wellAssets[i].name)
        /\ \A h \in 1..(j - 1) :
                CleanName(wellAssets[h].name) # CleanName(wellAssets[i].name)

\* C7: each well mapper (OSDU and EDM) emits well records with pairwise distinct
\* matching ids, and for input wells with the same cleaned name exactly one
\* record, the one built from the first occurrence in input order.
C7_WellDeduplication ==
    WellMapperRan =>
        /\ \A r1, r2 \in 1..Len(mapped.wells) :
                mapped.wells[r1].matching_id = mapped.wells[r2].matching_id => r1 = r2
        /\ \A i \in 1..Len(wellAssets) :
                LET found == RecordsWithId(CleanName(wellAssets[i].name))
                IN  /\ Cardinality(found) = 1
                    /\ \A r \in found :
                            mapped.wells[r].asset_external_id
                                = wellAssets[FirstOccurrence(i)].external_id

\* the number of ingest calls made for group k of the sequence
AttemptsOn(api, k) ==
    Cardinality({ c \in 1..Len(calls) : calls[c].api = api /\ calls[c].group = k })

EveryGroupOnce(api, records) ==
    \A k \in 1..Len(GroupsOf(records)) : AttemptsOn(api, k) = 1

\* the upload calls of a whole well mapper run, in order
ExpectedCalls(m) ==
    [k \in 1..Len(GroupsOf(m.wells)) |-> [api |-> "wells", group |-> k]]
        \o [k \in 1..Len(GroupsOf(m.wellbores)) |-> [api |-> "wellbores", group |-> k]]

C10_TrajectoryWitness ==
    /\ program = "trajectories"
    /\ pc = "done"
    /\ Len(calls) = 2
    /\ calls[1].raised

----------------------------------------------------------------------------
(* 04-well-tops.py: create_well_tops *)

\* the float not-a-number of a pandas record
NAN == [nan |-> TRUE]

\* math.isnan
IsNan(v) == v = NAN

Chars(word) ==
    CASE word = "formation" -> <<"f", "o", "r", "m", "a", "t", "i", "o", "n">>
      [] word = "group"     -> <<"g", "r", "o", "u", "p">>
      [] word = "member"    -> <<"m", "e", "m", "b", "e", "r">>

\* get_litho_unit: the level of the first of the three words the lower-cased
\* name contains, NONE when it contains none
GetLithoUnit(formation_name) ==
    LET lower == Lower(formation_name)
    IN  IF Contains(lower, Chars("formation")) THEN [level |-> "formation"]
        ELSE IF Contains(lower, Chars("group")) THEN [level |-> "group"]
        ELSE IF Contains(lower, Chars("member")) THEN [level |-> "member"]
        ELSE NONE

\* a base depth kept as read, not-a-number included
BaseAsRead(base_measured_depth) == base_measured_depth

\* lines 44-46: a not-a-number base depth becomes None
BaseOrNone(base_measured_depth) ==
    IF IsNan(base_measured_depth) THEN NONE ELSE base_measured_depth

(* The loop over records from record r on: the formations appended, each    *)
(* with the number of the record it was made from.                          *)
RECURSIVE FormationsFrom(_, _)
FormationsFrom(records, r) ==
    IF r > Len(records) THEN <<>>
    ELSE LET wt        == records[r]
             formation == [name                |-> wt.STRAT_UNIT_NM,
                           top_measured_depth  |-> wt.TOP_MD,
                           base_measured_depth |-> BaseOrNone(wt.BASE_MD),
                           lithostratigraphic  |-> GetLithoUnit(wt.STRAT_UNIT_NM),
                           record_number       |-> r]
             rest      == FormationsFrom(records, r + 1)
         IN  IF IsNan(formation.top_measured_depth) THEN rest
             ELSE <<formation>> \o rest

(* create_well_tops(sequence, data, assets_dict): the WellTopsIngestion, or *)
(* NONE.  wellbore is assets_dict[sequence.asset_id].external_id: main      *)
(* builds assets_dict from the asset ids of the very sequences it maps.     *)
CreateWellTops(sequence, records, wellbore) ==
    LET formations == FormationsFrom(records, 1)
    IN  IF Len(formations) > 0
        THEN [wellbore_asset_external_id |-> wellbore,
              sequence_external_id       |-> sequence,
              source_name                |-> "OSDU",
              measured_depth_unit        |-> "meter",
              tops                       |-> formations]
        ELSE NONE

(* Inputs of create_well_tops *)

MaxTops == 3

TopNames ==
    { <<"N", "o", "r", "d", "l", "a", "n", "d", " ", "G", "R", "O", "U", "P">>,
      <<"m", "e", "m", "b", "e", "r", " ", "o", "f", " ", "F", "o", "r", "m", "a", "t", "i", "o", "n">>,
      <<"S", "e", "a", "b", "e", "d">> }

TopDepths == {NAN, Num(0), Num(100)}

BaseDepths == {NAN, Num(150)}

SomeTops == [STRAT_UNIT_NM : TopNames, TOP_MD : TopDepths, BASE_MD : BaseDepths]

(* Specification of create_well_tops: one call *)

InitTops ==
    /\ \E records \in SeqsUpTo(SomeTops, MaxTops) :
            topsArgs = [sequence |-> "seq-1", records |-> records, wellbore |-> "wb-1"]
    /\ topsResult = PENDING
    /\ OthersIdle("tops")

CallCreateWellTops ==
    /\ topsResult = PENDING
    /\ topsResult' = CreateWellTops(topsArgs.sequence, topsArgs.records, topsArgs.wellbore)
    /\ UNCHANGED topsArgs
    /\ OthersUnchanged("tops")

NextTops == CallCreateWellTops

SpecTops == InitTops /\ [][NextTops]_vars

\* the records whose top measured depth is a number
C11Kept == {r \in 1..Len(topsArgs.records) : topsArgs.records[r].TOP_MD # NAN}

C11Tops == IF topsResult = NONE THEN <<>> ELSE topsResult.tops

(* C11: create_well_tops discards exactly the rows whose top measured depth *)
(* is not-a-number and keeps the others in input order, a not-a-number base *)
(* depth replaced by None; it returns a record of exactly the kept rows     *)
(* when there is one, and None otherwise.                                   *)
C11_WellTopsKept ==
    topsResult # PENDING =>
        /\ Len(C11Tops) = Cardinality(C11Kept)
        /\ \A k \in 1..Len(C11Tops) :
              LET top == C11Tops[k]
                  wt  == topsArgs.records[top.record_number]
              IN  /\ top.record_number \in C11Kept
                  /\ Cardinality({r \in C11Kept : r <= top.record_number}) = k
                  /\ top.name = wt.STRAT_UNIT_NM
                  /\ top.top_measured_depth = wt.TOP_MD
                  /\ top.base_measured_depth
                        = (IF wt.BASE_MD = NAN THEN NONE ELSE wt.BASE_MD)
        /\ (topsResult = NONE) <=> (C11Kept = {})

\* C11 witness: of three rows the second was discarded, the third kept with
\* its not-a-number base depth replaced by None
C11_Witness ==
    /\ topsResult # PENDING
    /\ Len(topsArgs.records) = 3
    /\ topsArgs.records[1].TOP_MD = Num(0)
    /\ topsArgs.records[2].TOP_MD = NAN
    /\ topsArgs.records[3].BASE_MD = NAN
    /\ Len(C11Tops) = 2
    /\ C11Tops[2].record_number = 3
    /\ C11Tops[2].base_measured_depth = NONE

\* the input wellbore asset an emitted wellbore record was built from
AssetOf(record) ==
    CHOOSE j \in 1..Len(wellboreAssets) :
        wellboreAssets[j].external_id = record.asset_external_id

\* the datum that a wellbore's own metadata gives in the OSDU source
OwnOsduDatum(wellbore) ==
    IF wellbore.elevation = NOTEXT THEN NONE
    ELSE [value |-> PyFloat(wellbore.elevation), unit |-> "meter", reference |-> "KB"]

(* C12: in the OSDU mapper a wellbore whose metadata lacks a datum key is   *)
(* mapped without error to a record whose datum is absent, every record's   *)
(* datum comes from that wellbore's own metadata, and only a missing        *)
(* longitude or latitude key is fatal.                                      *)
C12_MissingDatumKeyIsAbsent ==
    (program = "osdu" /\ mapped # PENDING) =>
        /\ mapped.raised \in {"no", "KeyError"}
        /\ mapped.raised = "KeyError" =>
                \E i \in 1..Len(wellAssets) : ~wellAssets[i].located
        /\ mapped.raised = "no" =>
                \A r \in 1..Len(mapped.wellbores) :
                    mapped.wellbores[r].datum
                        = OwnOsduDatum(wellboreAssets[AssetOf(mapped.wellbores[r])])

\* the datum of an OSDU record is another wellbore's
C12_StaleDatum ==
    /\ program = "osdu"
    /\ mapped # PENDING
    /\ mapped.raised = "no"
    /\ \E r \in 1..Len(mapped.wellbores) :
            /\ wellboreAssets[AssetOf(mapped.wellbores[r])].elevation = NOTEXT
            /\ mapped.wellbores[r].datum # NONE

\* the place in calls of the call of the well group k that returned, 0 when none
ReturnedWellCall(k) ==
    LET found == { c \in 1..Len(calls) :
                      /\ calls[c].api = "wells"
                      /\ calls[c].group = k
                      /\ ~calls[c].raised }
    IN  IF found = {} THEN 0 ELSE CHOOSE c \in found : \A e \in found : c <= e

(* C13: in a well mapper run every upload call comes after the mapping of   *)
(* all input records, so a run whose mapping raised has made no upload call *)
(* at all; the records of a call are a group of the mapped records; and a   *)
(* wellbore group is uploaded only after the upload of every well group has *)
(* returned.                                                                *)
C13_MapThenWellsThenWellbores ==
    program \in {"osdu", "edm"} =>
        /\ calls # <<>> => WellMapperRan
        /\ (mapped # PENDING /\ mapped.raised # "no") => (calls = <<>> /\ pc = "aborted")
        /\ \A c \in 1..Len(calls) :
              /\ calls[c].api \in {"wells", "wellbores"}
              /\ calls[c].api = "wells" =>
                    calls[c].records = GroupsOf(mapped.wells)[calls[c].group]
              /\ calls[c].api = "wellbores" =>
                    /\ calls[c].records = GroupsOf(mapped.wellbores)[calls[c].group]
                    /\ \A k \in 1..Len(GroupsOf(mapped.wells)) :
                            /\ ReturnedWellCall(k) > 0
                            /\ ReturnedWellCall(k) < c

\* C13 witness: an OSDU run ended after two well groups and then a wellbore group
C13_Witness ==
    /\ program = "osdu"
    /\ WellMapperRan
    /\ pc = "done"
    /\ Len(GroupsOf(mapped.wells)) = 2
    /\ Len(calls) >= 3
    /\ calls[3].api = "wellbores"

\* a run whose mapping met a well without longitude or latitude: no upload call
C13_FatalWitness ==
    /\ program = "edm"
    /\ mapped # PENDING
    /\ mapped.raised = "KeyError"
    /\ Len(wellAssets) = 3
    /\ ~wellAssets[3].located
    /\ calls = <<>>

\* the emitted wellbore records built from the input wellbore j
RecordsOfWellbore(j) ==
    { r \in 1..Len(mapped.wellbores) :
         mapped.wellbores[r].asset_external_id = wellboreAssets[j].external_id }

\* the input wells that are the parent of the input wellbore j
ParentsOf(j) ==
    { i \in 1..Len(wellAssets) :
         wellAssets[i].external_id = wellboreAssets[j].parent_external_id }

\* the input well i comes after an input well of the same cleaned name
DuplicateWell(i) == FirstOccurrence(i) # i

(* C14: in the output of the EDM mapper every wellbore record references a  *)
(* well asset whose well record was emitted; a wellbore whose parent well   *)
(* was dropped as a duplicate matching id, or is not among the input wells, *)
(* is not emitted; and an input wellbore gives at most one record.          *)
C14_EdmReferentialIntegrity ==
    (program = "edm" /\ WellMapperRan) =>
        /\ \A r \in 1..Len(mapped.wellbores) :
              \E w \in 1..Len(mapped.wells) :
                  mapped.wells[w].asset_external_id
                      = mapped.wellbores[r].well_asset_external_id
        /\ \A j \in 1..Len(wellboreAssets) :
              /\ Cardinality(RecordsOfWellbore(j)) <= 1
              /\ ParentsOf(j) = {} => RecordsOfWellbore(j) = {}
              /\ (\E i \in ParentsOf(j) : DuplicateWell(i)) => RecordsOfWellbore(j) = {}

\* C14 witness: of four wellbores the first and the third were emitted, the
\* second dropped with its duplicate well and the fourth for want of a well
C14_Witness ==
    /\ program = "edm"
    /\ WellMapperRan
    /\ Len(wellAssets) = 3
    /\ DuplicateWell(2)
    /\ Len(wellboreAssets) = 4
    /\ Len(mapped.wells) = 2
    /\ Len(mapped.wellbores) = 2
    /\ RecordsOfWellbore(1) # {}
    /\ RecordsOfWellbore(2) = {}
    /\ RecordsOfWellbore(3) # {}
    /\ RecordsOfWellbore(4) = {}

====
